---- MODULE Spec2Model ----
(***************************************************************************)
(* Model of src/main.rs: a GPUI modal dialog (Backdrop + DialogBox) and    *)
(* its bootstrap.  The state is what main() and the three DialogBox        *)
(* handlers read and write through the framework context: the display      *)
(* list, the window-creation calls made, the windows that exist, and the   *)
(* cx.quit() calls issued.                                                 *)
(*                                                                         *)
(* Pixels (f32 in the source) are modelled as fixed point numbers counted  *)
(* in half pixels, so that the halving in main() is exact for every whole  *)
(* pixel display size, as it is in f32.                                    *)
(***************************************************************************)
EXTENDS Integers, Sequences, FiniteSets, TLC

VARIABLES pc, displays, screen_size, display_id, openCalls, windows,
          quitRequests, inputLog, handlerLog, frames

vars == <<pc, displays, screen_size, display_id, openCalls, windows,
          quitRequests, inputLog, handlerLog, frames>>

\* ------------------------------------------------------------------ bounds
MaxDisplays == 2
MaxInputs == 2
MaxRenders == 2

\* ------------------------------------------------------------ pixel values
\* px(v): a whole number of pixels as a Pixels value (half-pixel units).
px(v) == 2 * v

\* `p / 2.0` on Pixels.
HalveTruncated(p) == px((p \div 2) \div 2)
Halve(p) == p \div 2

point(x, y) == [x |-> x, y |-> y]
size(w, h) == [width |-> w, height |-> h]
Bounds(o, s) == [origin |-> o, size |-> s]

dialog_width == px(460)
dialog_height == px(180)

\* ----------------------------------------------------------- environment
\* Display sizes (whole pixels) and origins the platform may report.
DisplaySizes == { <<1920, 1080>>, <<461, 181>>, <<300, 100>> }
DisplayOrigins == { <<0, 0>>, <<100, 50>> }

DisplayBounds ==
    { Bounds(point(px(o[1]), px(o[2])), size(px(s[1]), px(s[2]))) :
        o \in DisplayOrigins, s \in DisplaySizes }

\* cx.displays(): a list of displays, each with an id and its bounds.  The
\* first display is any of DisplayBounds; main() reads no other, and the
\* further displays stand side by side to its right.
DisplayLists ==
    { <<>> } \cup
    { [i \in 1..n |->
         [id |-> i,
          bounds |-> Bounds(point(b.origin.x + (i - 1) * b.size.width,
                                  b.origin.y), b.size)]] :
        b \in DisplayBounds, n \in 1..MaxDisplays }

NoSize == size(0, 0)


\* ------------------------------------------------------- window options
\* WindowOptions of the backdrop window: full screen, unfocused popup.
backdrop_options_focused(ss, did) ==
    [ window_bounds |-> Bounds(point(px(0), px(0)), ss),
      titlebar |-> "None", focus |-> TRUE, show |-> TRUE, kind |-> "PopUp",
      is_movable |-> FALSE, display_id |-> did,
      window_background |-> "Transparent" ]
backdrop_options(ss, did) ==
    [ window_bounds |-> Bounds(point(px(0), px(0)), ss),
      titlebar |-> "None", focus |-> FALSE, show |-> TRUE, kind |-> "PopUp",
      is_movable |-> FALSE, display_id |-> did,
      window_background |-> "Transparent" ]

\* Centered placement of the dialog on a screen of size ss.
dialog_bounds(ss) ==
    LET x == Halve(ss.width - dialog_width)
        y == Halve(ss.height - dialog_height)
    IN  Bounds(point(x, y), size(dialog_width, dialog_height))

\* WindowOptions of the dialog window: centered, focused popup.
dialog_options(ss, did) ==
    [ window_bounds |-> dialog_bounds(ss),
      titlebar |-> "None", focus |-> TRUE, show |-> TRUE, kind |-> "PopUp",
      is_movable |-> FALSE, display_id |-> did,
      window_background |-> "Transparent" ]

\* ------------------------------------------------------------- handlers
\* The application context a handler reaches through cx.
Cx == [quitRequests |-> quitRequests, windows |-> windows]

\* cx.quit(): one termination request to the framework.
quit_once(cx) == IF cx.quitRequests > 0 THEN cx
                 ELSE [cx EXCEPT !.quitRequests = 1]
quit_toggle(cx) == [cx EXCEPT !.quitRequests = IF @ > 0 THEN 0 ELSE 1]
quit(cx) == [cx EXCEPT !.quitRequests = @ + 1]

on_ok_clicked(cx) == quit(cx)

on_cancel_clicked_noop(cx) == cx
on_cancel_clicked(cx) == quit(cx)

on_escape_noop(cx) == cx
on_escape(cx) == quit(cx)

Invoke(h, cx) ==
    CASE h = "on_ok_clicked" -> on_ok_clicked(cx)
      [] h = "on_cancel_clicked" -> on_cancel_clicked(cx)
      [] h = "on_escape" -> on_escape(cx)

\* ------------------------------------------------------------ listeners
\* Listeners registered by DialogBox::render: on_key_down on the outer
\* container (no key filter), on_mouse_up(MouseButton::Left, ..) on the red
\* glyph, the Cancel button and the OK button.
DialogBoxListeners ==
    { [element |-> "root", type |-> "key_down", button |-> "none",
       handler |-> "on_escape"],
      [element |-> "red", type |-> "mouse_up", button |-> "Left",
       handler |-> "on_cancel_clicked"],
      [element |-> "cancel", type |-> "mouse_up", button |-> "Left",
       handler |-> "on_cancel_clicked"],
      [element |-> "ok", type |-> "mouse_up", button |-> "Left",
       handler |-> "on_ok_clicked"] }

\* Backdrop::render registers no listener.
BackdropListeners == {}

ListenersOf(component) ==
    IF component = "DialogBox" THEN DialogBoxListeners ELSE BackdropListeners

\* ---------------------------------------------------------------- inputs
DialogElements == {"ok", "cancel", "red", "yellow", "green"}

MouseInputs ==
    { [window |-> "DialogBox", type |-> "mouse_up", button |-> "Left",
       target |-> e, key |-> "none"] : e \in DialogElements }
    \cup
    { [window |-> "DialogBox", type |-> "mouse_up", button |-> "Right",
       target |-> e, key |-> "none"] : e \in {"ok"} }
    \cup
    { [window |-> "Backdrop", type |-> "mouse_up", button |-> b,
       target |-> "root", key |-> "none"] : b \in {"Left"} }

KeyInputs ==
    { [window |-> "DialogBox", type |-> "key_down", button |-> "none",
       target |-> "root", key |-> k] : k \in {"escape", "a"} }
    \cup
    { [window |-> "Backdrop", type |-> "key_down", button |-> "none",
       target |-> "root", key |-> "escape"] }

Inputs == MouseInputs \cup KeyInputs

\* The listeners an input reaches: those of the addressed window's root
\* component with the same event type, on the hit element and (for mouse
\* events) for the same button.
Matching(i) ==
    { l \in ListenersOf(i.window) :
        /\ l.type = i.type
        /\ l.element = i.target
        /\ l.button = i.button }

\* -------------------------------------------------------- element trees
\* An element: the builder calls made on it (style), the listeners attached
\* to it and its children, in source order.
div(style, listeners, children) ==
    [tag |-> "div", style |-> style, listeners |-> listeners,
     children |-> children]
text(s) ==
    [tag |-> "text", style |-> <<s>>, listeners |-> {}, children |-> <<>>]

\* cx.listener(Self::handler), attached by on_key_down / on_mouse_up.
listener(type, button, handler) ==
    [type |-> type, button |-> button, handler |-> handler]

\* impl Render for Backdrop
Backdrop_render(cx) ==
    div(<<"size_full", "bg(hsla(0.0, 0.0, 0.0, 0.3))">>, {}, <<>>)

\* The three titlebar glyphs.
Glyph(bg, border, extra, listeners) ==
    div(<<"w(px(12.0))", "h(px(12.0))", "rounded_full", bg, "border_1",
          border>> \o extra, listeners, <<>>)

Titlebar ==
    div(<<"flex", "items_center", "h(px(22.0))", "w_full",
          "bg(rgb(0xE8E8E8))", "border_b_1", "border_color(rgb(0xD0D0D0))",
          "px_3", "gap_2">>, {},
        << Glyph("bg(rgb(0xFF5F57))", "border_color(rgb(0xE04943))",
                 <<"cursor_pointer">>,
                 {listener("mouse_up", "Left", "on_cancel_clicked")}),
           Glyph("bg(rgb(0xFFBD2E))", "border_color(rgb(0xDEA123))",
                 <<>>, {}),
           Glyph("bg(rgb(0x28C940))", "border_color(rgb(0x1AAB29))",
                 <<>>, {}) >>)

Message ==
    div(<<"flex", "flex_1", "items_center", "px_3", "py_4">>, {},
        << div(<<"text_size(px(13.0))", "text_color(rgb(0x000000))",
                 "font_weight(NORMAL)", "line_height(relative(1.4))">>, {},
               << text("Hello world!") >>) >>)

CancelButton ==
    div(<<"flex", "items_center", "justify_center", "px_6", "h(px(32.0))",
          "min_w(px(90.0))", "bg(rgb(0xFFFFFF))", "text_color(rgb(0x000000))",
          "text_size(px(13.0))", "font_weight(NORMAL)", "rounded(px(6.0))",
          "border_1", "border_color(rgb(0xB8B8B8))", "cursor_pointer",
          "shadow_sm", "hover(bg(rgb(0xF8F8F8)))">>,
        {listener("mouse_up", "Left", "on_cancel_clicked")},
        << text("Cancel") >>)

OkButton ==
    div(<<"flex", "items_center", "justify_center", "px_6", "h(px(32.0))",
          "min_w(px(90.0))", "bg(rgb(0x007AFF))", "text_color(rgb(0xFFFFFF))",
          "text_size(px(13.0))", "font_weight(NORMAL)", "rounded(px(6.0))",
          "cursor_pointer", "shadow_sm", "hover(bg(rgb(0x0068DB)))">>,
        {listener("mouse_up", "Left", "on_ok_clicked")},
        << text("Ok") >>)

Buttons ==
    div(<<"flex", "gap_3", "justify_end", "w_full", "mt_3">>, {},
        << CancelButton, OkButton >>)

Content ==
    div(<<"flex", "flex_col", "bg(rgb(0xEFEFEF))", "flex_1", "px_6",
          "py_5">>, {}, << Message, Buttons >>)

\* impl Render for DialogBox
DialogBox_render_stateful(cx) ==
    div(<<"flex", "size_full", "justify_center", "items_center">>,
        IF cx.quitRequests > 0 THEN {}
        ELSE {listener("key_down", "none", "on_escape")},
        << div(<<"flex", "flex_col", "rounded(px(10.0))", "shadow_lg",
                 "overflow_hidden", "w_full", "h_full">>, {},
               << Titlebar, Content >>) >>)
DialogBox_render(cx) ==
    div(<<"flex", "size_full", "justify_center", "items_center">>,
        {listener("key_down", "none", "on_escape")},
        << div(<<"flex", "flex_col", "rounded(px(10.0))", "shadow_lg",
                 "overflow_hidden", "w_full", "h_full">>, {},
               << Titlebar, Content >>) >>)

Components == {"Backdrop", "DialogBox"}

render(component, cx) ==
    IF component = "Backdrop" THEN Backdrop_render(cx)
    ELSE DialogBox_render(cx)

\* No frame has been rendered for any window.
NoFrames == [c \in {} |-> 0]

\* ------------------------------------------------------------------ Init
Init ==
    /\ pc = "start"
    /\ displays \in DisplayLists
    /\ screen_size = NoSize
    /\ display_id = 0
    /\ openCalls = <<>>
    /\ windows = {}
    /\ quitRequests = 0
    /\ inputLog = <<>>
    /\ handlerLog = <<>>
    /\ frames = NoFrames

\* --------------------------------------------------------------- actions
\* displays.first().unwrap(), display.bounds().size
GetDisplayOrDefault ==
    /\ pc = "start"
    /\ pc' = "have_display"
    /\ IF displays = <<>>
       THEN screen_size' = size(px(1920), px(1080)) /\ display_id' = 1
       ELSE screen_size' = displays[1].bounds.size
            /\ display_id' = displays[1].id
    /\ UNCHANGED <<displays, openCalls, windows, quitRequests, inputLog,
                   handlerLog, frames>>
GetDisplay ==
    /\ pc = "start"
    /\ IF displays = <<>>
       THEN /\ pc' = "panicked"
            /\ UNCHANGED <<screen_size, display_id>>
       ELSE /\ pc' = "have_display"
            /\ screen_size' = displays[1].bounds.size
            /\ display_id' = displays[1].id
    /\ UNCHANGED <<displays, openCalls, windows, quitRequests, inputLog,
                   handlerLog, frames>>

\* cx.open_window(options, build).unwrap(): the framework either creates
\* the window or rejects the request, and a rejection panics.
OpenWindow(component, options, from, to, onErr) ==
    /\ pc = from
    /\ \E ok \in BOOLEAN :
         /\ openCalls' = Append(openCalls, [component |-> component,
                                            options |-> options, ok |-> ok])
         /\ IF ok
            THEN /\ windows' = windows \cup
                        { [handle |-> Len(openCalls) + 1,
                           component |-> component, options |-> options] }
                 /\ pc' = to
            ELSE /\ windows' = windows
                 /\ pc' = onErr
    /\ UNCHANGED <<displays, screen_size, display_id, quitRequests, inputLog,
                   handlerLog, frames>>

OpenBackdrop ==
    OpenWindow("Backdrop", backdrop_options(screen_size, display_id),
               "have_display", "backdrop_open", "panicked")

OpenDialogIgnoreError ==
    OpenWindow("DialogBox", dialog_options(screen_size, display_id),
               "backdrop_open", "running", "running")
OpenDialog ==
    OpenWindow("DialogBox", dialog_options(screen_size, display_id),
               "backdrop_open", "running", "panicked")

\* The event loop dispatches input only once the closure passed to
\* Application::run has returned, and until the process has terminated.
CanDispatchEarly == pc \in {"backdrop_open", "running"}
CanDispatch == pc = "running"

\* The framework delivers one input event to the window it addresses and
\* runs the listener it reaches, if any.
Dispatch(i) ==
    /\ CanDispatch
    /\ Len(inputLog) < MaxInputs
    /\ \E w \in windows : w.component = i.window
    /\ inputLog' = Append(inputLog, i)
    /\ LET hs == Matching(i)
           h == (CHOOSE l \in hs : TRUE).handler
           cx2 == IF hs = {} THEN Cx ELSE Invoke(h, Cx)
       IN  /\ quitRequests' = cx2.quitRequests
           /\ windows' = cx2.windows
           /\ handlerLog' = IF hs = {} THEN handlerLog
                            ELSE Append(handlerLog, h)
    /\ UNCHANGED <<pc, displays, screen_size, display_id, openCalls, frames>>

\* The framework honours a termination request: the process exits and both
\* windows are torn down.
Terminate ==
    /\ pc = "running"
    /\ quitRequests > 0
    /\ pc' = "exited"
    /\ windows' = {}
    /\ frames' = NoFrames
    /\ UNCHANGED <<displays, screen_size, display_id, openCalls,
                   quitRequests, inputLog, handlerLog>>

\* The number of render calls made so far, over both components.
Renders ==
    LET n(c) == IF c \in DOMAIN frames THEN frames[c].n ELSE 0
    IN  n("Backdrop") + n("DialogBox")

\* The framework redraws a window: it calls render() of the window's root
\* component and keeps the element tree as the window's frame (with the
\* number of times the component has been rendered).
Render(c) ==
    /\ pc \in {"backdrop_open", "running"}
    /\ \E w \in windows : w.component = c
    /\ Renders < MaxRenders
    /\ LET n == IF c \in DOMAIN frames THEN frames[c].n ELSE 0
       IN  frames' = [d \in DOMAIN frames \cup {c} |->
                        IF d = c THEN [tree |-> render(c, Cx), n |-> n + 1]
                        ELSE frames[d]]
    /\ UNCHANGED <<pc, displays, screen_size, display_id, openCalls, windows,
                   quitRequests, inputLog, handlerLog>>

Next ==
    \/ GetDisplay
    \/ OpenBackdrop
    \/ OpenDialog
    \/ \E i \in Inputs : Dispatch(i)
    \/ Terminate
    \/ \E c \in Components : Render(c)

Spec == Init /\ [][Next]_vars

\* The framework's event loop keeps running on its single thread and
\* handlers never block, so a pending termination request is honoured.
FairSpec == Spec /\ WF_vars(Terminate)


\* ------------------------------------------------------ derived notions
\* The dialog's implicit two-state machine.
Open == pc = "running" /\ quitRequests = 0
Closed == quitRequests > 0

WindowsOf(component) == { w \in windows : w.component = component }
CallsOf(component) ==
    { k \in 1..Len(openCalls) : openCalls[k].component = component }

\* A step that dispatches one input, and that input.
DispatchStep == Len(inputLog') = Len(inputLog) + 1
Dispatched == inputLog'[Len(inputLog')]

\* A step that invokes one DialogBox handler.
HandlerStep == Len(handlerLog') = Len(handlerLog) + 1

\* OK click, Cancel click, close-glyph click, Escape key-down.
TerminatingInputs ==
    { [window |-> "DialogBox", type |-> "mouse_up", button |-> "Left",
       target |-> e, key |-> "none"] : e \in {"ok", "cancel", "red"} }
    \cup
    { [window |-> "DialogBox", type |-> "key_down", button |-> "none",
       target |-> "root", key |-> "escape"] }

\* ----------------------------------------------------------------- C1
\* C1 (as stated): once at least one of on_ok_clicked, on_cancel_clicked,
\* on_escape has been invoked, exactly one termination request has been
\* issued in total, however many invocations there were.
C1_ExactlyOneRequest == handlerLog # <<>> => quitRequests = 1

\* C1 (amended): every invocation of a handler issues exactly one
\* termination request, so the total number of requests equals the number
\* of invocations; an invocation has no other effect on the application
\* (windows, creation calls and the bootstrap position are unchanged), and
\* no request is issued without an invocation.
C1_OneRequestPerInvocation ==
    /\ [](quitRequests = Len(handlerLog))
    /\ [][ /\ HandlerStep =>
              /\ quitRequests' = quitRequests + 1
              /\ windows' = windows
              /\ openCalls' = openCalls
              /\ pc' = pc
           /\ ~HandlerStep => quitRequests' = quitRequests ]_vars

C1_Witness ==
    /\ Len(handlerLog) = 2
    /\ handlerLog[1] # handlerLog[2]
    /\ quitRequests = 2

\* ----------------------------------------------------------------- C2
\* C2: once the dialog is Closed it is Closed in every later state,
\* whatever is dispatched afterwards, and no window is opened (no creation
\* call is made, no window appears) after Closed is reached.
C2_ClosedIsTerminal ==
    [][ Closed => /\ Closed'
                  /\ openCalls' = openCalls
                  /\ windows' \subseteq windows ]_vars

C2_Witness ==
    /\ Closed
    /\ Len(inputLog) = 2
    /\ inputLog[1] \in TerminatingInputs
    /\ inputLog[2] \notin TerminatingInputs

\* ----------------------------------------------------------------- C3
\* C3: the placement passed to the dialog window's creation call has size
\* exactly (460, 180) and origin exactly ((w-460)/2, (h-180)/2) for the
\* primary display's size (w, h); for 1920x1080 the origin is (730, 450).
C3_DialogCentered ==
    \A k \in CallsOf("DialogBox") :
        LET b == openCalls[k].options.window_bounds
            s == displays[1].bounds.size
        IN  /\ b.size = size(px(460), px(180))
            /\ 2 * b.origin.x = s.width - px(460)
            /\ 2 * b.origin.y = s.height - px(180)
            /\ s = size(px(1920), px(1080))
                 => b.origin = point(px(730), px(450))

\* A dialog creation call on a display where w-460 and h-180 are odd.
C3_Witness ==
    /\ CallsOf("DialogBox") # {}
    /\ displays[1].bounds.size = size(px(461), px(181))

\* ----------------------------------------------------------------- C4
\* C4: the placement passed to the backdrop window's creation call equals
\* the primary display's full bounds: same origin, same width and height,
\* also when the display's origin is not (0,0).
C4_BackdropCoversDisplay ==
    \A k \in CallsOf("Backdrop") :
        openCalls[k].options.window_bounds = displays[1].bounds

\* ----------------------------------------------------------------- C5
\* C5: with an empty display list no open_window call is ever made, no
\* window exists and the dialog never reaches Open: bootstrap stops at the
\* failed unwrap.
C5_NoDisplayNoWindow ==
    displays = <<>> =>
        /\ openCalls = <<>>
        /\ windows = {}
        /\ pc \in {"start", "panicked"}
        /\ ~Open

C5_Witness == displays = <<>> /\ pc = "panicked"

\* ----------------------------------------------------------------- C6
\* C6: a failed window-creation call is the last creation call (no retry,
\* no further call), bootstrap has panicked, the application never runs
\* (no input is dispatched, it is never Open), and the windows created
\* before the failure still exist: the application does not close them.
C6_CreationFailureFatal ==
    \A k \in 1..Len(openCalls) :
        ~openCalls[k].ok =>
            /\ k = Len(openCalls)
            /\ pc = "panicked"
            /\ ~Open
            /\ inputLog = <<>>
            /\ { w.handle : w \in windows } =
                   { j \in 1..(k - 1) : openCalls[j].ok }

\* The dialog's creation failed after the backdrop was created.
C6_Witness ==
    /\ Len(openCalls) = 2
    /\ openCalls[1].ok
    /\ ~openCalls[2].ok
    /\ WindowsOf("Backdrop") # {}

\* ----------------------------------------------------------------- C7
\* C7: the backdrop's creation is requested first and the dialog's only
\* after the backdrop's has succeeded, each at most once, and input is
\* dispatched only after both windows have been created.
C7_BackdropThenDialog ==
    /\ Len(openCalls) <= 2
    /\ Len(openCalls) >= 1 => openCalls[1].component = "Backdrop"
    /\ Len(openCalls) = 2 => /\ openCalls[2].component = "DialogBox"
                             /\ openCalls[1].ok
    /\ inputLog # <<>> => /\ Len(openCalls) = 2
                          /\ openCalls[1].ok
                          /\ openCalls[2].ok

C7_Witness ==
    /\ handlerLog # <<>>
    /\ Len(openCalls) = 2
    /\ inputLog[1].window = "DialogBox"

\* ----------------------------------------------------------------- C8
\* C8 (as stated): whenever the application has a window, exactly one
\* dialog window and exactly one backdrop window exist, the dialog window
\* created with focus and the backdrop without.
C8_AlwaysOneOfEach ==
    windows # {} =>
        /\ Cardinality(WindowsOf("DialogBox")) = 1
        /\ Cardinality(WindowsOf("Backdrop")) = 1
        /\ \A w \in WindowsOf("DialogBox") : w.options.focus
        /\ \A w \in WindowsOf("Backdrop") : ~w.options.focus

\* C8 (amended): from the end of bootstrap until the process terminates
\* exactly one dialog window and one backdrop window exist; in every state
\* there is at most one of each and never a dialog without a backdrop; the
\* dialog window is requested with focus and the backdrop without.
C8_OneOfEachWhileRunning ==
    /\ pc = "running" => /\ Cardinality(WindowsOf("DialogBox")) = 1
                         /\ Cardinality(WindowsOf("Backdrop")) = 1
    /\ Cardinality(WindowsOf("DialogBox")) <= 1
    /\ Cardinality(WindowsOf("Backdrop")) <= 1
    /\ WindowsOf("DialogBox") # {} => WindowsOf("Backdrop") # {}
    /\ \A k \in CallsOf("DialogBox") : openCalls[k].options.focus
    /\ \A k \in CallsOf("Backdrop") : ~openCalls[k].options.focus
    /\ \A w \in WindowsOf("DialogBox") : w.options.focus
    /\ \A w \in WindowsOf("Backdrop") : ~w.options.focus

C8_Witness ==
    /\ Open
    /\ Cardinality(windows) = 2
    /\ inputLog # <<>>

\* ----------------------------------------------------------------- C9
\* C9: while the dialog is Open, an input that is not a left-button
\* release on OK, Cancel or the red glyph, nor an Escape key-down, issues
\* no termination request and leaves the dialog Open.
C9_OnlyTerminatingInputsQuit ==
    [][ (Open /\ DispatchStep /\ Dispatched \notin TerminatingInputs)
            => (quitRequests' = quitRequests /\ Open') ]_vars

\* ---------------------------------------------------------------- C10
\* C10: from every state, dispatching OK, Cancel, the red close glyph or
\* Escape produces the same successor application state, the one an OK
\* click produces: one more termination request and nothing else changed.
C10_SameOutcome ==
    [][ (DispatchStep /\ Dispatched \in TerminatingInputs) =>
            /\ [quitRequests |-> quitRequests', windows |-> windows']
                   = on_ok_clicked(Cx)
            /\ quitRequests' > quitRequests
            /\ pc' = pc
            /\ openCalls' = openCalls ]_vars

\* Two different terminating inputs have been dispatched.
C10_Witness ==
    /\ Len(inputLog) = 2
    /\ inputLog[1] \in TerminatingInputs
    /\ inputLog[2] \in TerminatingInputs
    /\ inputLog[1].target = "red"
    /\ inputLog[2].key = "escape"


\* ---------------------------------------------------------------- C11
\* C11: once both windows are open, whenever a terminating event (OK
\* click, Cancel click, close-glyph click or Escape key-down) has been
\* dispatched to the dialog, the application eventually is Closed with the
\* process exited and both windows torn down; no further input is needed.
TerminatingEventDispatched ==
    \E k \in 1..Len(inputLog) : inputLog[k] \in TerminatingInputs

TornDown == Closed /\ pc = "exited" /\ windows = {}

C11_TerminatingEventClosesApp == TerminatingEventDispatched ~> TornDown

\* Torn down after a single terminating event and no other input.
C11_Witness ==
    /\ TornDown
    /\ Len(inputLog) = 1
    /\ inputLog[1] \in TerminatingInputs
    /\ openCalls[2].ok


\* ---------------------------------------------------------------- C12
\* C12: a render call of Backdrop or of DialogBox changes no application
\* or component state (Open/Closed, the windows, the termination requests,
\* the creation calls, the bootstrap position), whatever was dispatched or
\* rendered before it, and it produces the same element tree as every
\* earlier render call of the same component.
RenderStep(c) ==
    /\ c \in DOMAIN frames'
    /\ frames'[c].n = (IF c \in DOMAIN frames THEN frames[c].n ELSE 0) + 1

C12_RenderPure ==
    [][ \A c \in Components :
          RenderStep(c) =>
            /\ UNCHANGED <<pc, displays, screen_size, display_id, openCalls,
                           windows, quitRequests, inputLog, handlerLog>>
            /\ Open' = Open
            /\ Closed' = Closed
            /\ c \in DOMAIN frames => frames'[c].tree = frames[c].tree ]_vars

\* DialogBox has been rendered twice, in a run in which a handler was
\* invoked, and the application is still running.
C12_Witness ==
    /\ "DialogBox" \in DOMAIN frames
    /\ frames["DialogBox"].n = 2
    /\ handlerLog # <<>>
    /\ pc = "running"

====
